---- MODULE Spec2Model ----
(***************************************************************************)
(* Model of the orapass library (package orapass, type Parser) of          *)
(* gsiems/ora-pass: GetPasswd applies defaults to the query, looks for a   *)
(* credentials file, checks its permissions and scans it line by line for  *)
(* the first entry matching (host, port, database, username).              *)
(*                                                                         *)
(* Representation.  A Go string that the code inspects character by        *)
(* character (query values, file lines, fields) is a sequence of symbols.  *)
(* A symbol is either one of the characters the code treats specially      *)
(* (":", "#", " ", "*") or a run of letters and digits ("localhost").      *)
(* The empty Go string is the empty sequence.  File-system paths are only  *)
(* compared, joined and handed to the OS, so they are TLA+ strings.        *)
(***************************************************************************)
EXTENDS Integers, Sequences, FiniteSets, TLC

VARIABLES
    GOOS,         \* runtime.GOOS
    env,          \* the process environment read with os.Getenv
    osUser,       \* user.Current().Username, "" (<<>>) when it fails
    fs,           \* the file system: path -> [kind, mode, content]
    arg,          \* the Parser fields as the caller set them before the call
    p,            \* the Parser receiver *p (mutated by GetPasswd)
    pc,           \* position inside GetPasswd
    i,            \* searchFile: number of lines read so far
    tokens,       \* searchFile: tokens of the line last split
    m,            \* searchFile: hostMatch, portMatch, dbNameMatch, userMatch
    res,          \* the (Parser, error) pair GetPasswd returns
    probed,       \* paths handed to os.Stat by fileExists, in order
    permChecked,  \* paths handed to permbits.Stat by checkFilePerms
    opened,       \* paths handed to os.Open by searchFile
    calls         \* GetPasswd calls made on this Parser, the current one included

vars == <<GOOS, env, osUser, fs, arg, p, pc, i, tokens, m, res,
          probed, permChecked, opened, calls>>

-----------------------------------------------------------------------------
(* Bounds *)

\* longest credentials file explored, in lines
MaxLines == 2

\* most GetPasswd calls made on one Parser
MaxCalls == 2

-----------------------------------------------------------------------------
(* Strings *)

\* the Go string s of one symbol; EmptyStr is ""
S(c) == <<c>>
EmptyStr == <<>>
Star == <<"*">>

\* strings.ToUpper on one symbol
ToUpperSym(c) ==
    CASE c = "localhost" -> "LOCALHOST"
      [] c = "otherhost" -> "OTHERHOST"
      [] c = "emp"       -> "EMP"
      [] c = "nosuchdb"  -> "NOSUCHDB"
      [] c = "scott"     -> "SCOTT"
      [] c = "Scott"     -> "SCOTT"
      [] c = "walter"    -> "WALTER"
      [] OTHER           -> c

\* strings.ToUpper
ToUpper(s) == [k \in 1..Len(s) |-> ToUpperSym(s[k])]

\* index of the first ":" in s, 0 when there is none
RECURSIVE IndexColon(_, _)
IndexColon(s, k) ==
    IF k > Len(s) THEN 0
    ELSE IF s[k] = ":" THEN k
    ELSE IndexColon(s, k + 1)

\* a variant that splits at every ":", whatever n: strings.Split
RECURSIVE SplitAll(_, _)
SplitAll(s, n) ==
    LET k == IndexColon(s, 1) IN
    IF k = 0 THEN <<s>>
    ELSE <<SubSeq(s, 1, k - 1)>> \o SplitAll(SubSeq(s, k + 1, Len(s)), n)

\* strings.SplitN(s, ":", n) for n >= 1
RECURSIVE SplitN(_, _)
SplitN(s, n) ==
    LET k == IndexColon(s, 1) IN
    IF n <= 1 \/ k = 0 THEN <<s>>
    ELSE <<SubSeq(s, 1, k - 1)>> \o SplitN(SubSeq(s, k + 1, Len(s)), n - 1)

\* a variant of the comment pattern without the leading spaces: "^#"
IsCommentNoIndent(line) == line # <<>> /\ Head(line) = "#"

\* regexp "^ *#" matched against a line
RECURSIVE IsComment(_)
IsComment(line) ==
    /\ line # <<>>
    /\ \/ Head(line) = "#"
       \/ Head(line) = " " /\ IsComment(Tail(line))

\* a variant of coalesce that picks the last non-empty string
RECURSIVE coalesceLast(_)
coalesceLast(s) ==
    IF s = <<>> THEN EmptyStr
    ELSE IF coalesceLast(Tail(s)) # EmptyStr THEN coalesceLast(Tail(s))
    ELSE Head(s)

\* coalesce picks the first non-empty string from a list
RECURSIVE coalesce(_)
coalesce(s) ==
    IF s = <<>> THEN EmptyStr
    ELSE IF Head(s) # EmptyStr THEN Head(s)
    ELSE coalesce(Tail(s))

\* variants of chkForMatch: one comparing letters exactly, one whose
\* wildcard also matches an empty calling parameter
chkForMatchExact(callingParm, fileParm) ==
    \/ callingParm = fileParm
    \/ fileParm = Star /\ callingParm # EmptyStr

chkForMatchAnyWildcard(callingParm, fileParm) ==
    \/ ToUpper(callingParm) = ToUpper(fileParm)
    \/ fileParm = Star

\* chkForMatch: calling parameter against file parameter
chkForMatch(callingParm, fileParm) ==
    \/ ToUpper(callingParm) = ToUpper(fileParm)
    \/ fileParm = Star /\ callingParm # EmptyStr

\* a variant of the selection test that forgets the username
allMatchButUser(hostMatch, portMatch, dbNameMatch, userMatch) ==
    hostMatch /\ portMatch /\ dbNameMatch

\* searchFile's test that selects a line
allMatch(hostMatch, portMatch, dbNameMatch, userMatch) ==
    hostMatch /\ portMatch /\ dbNameMatch /\ userMatch

\* a variant of pickParm that always takes the file parameter
pickParmFile(callingParm, fileParm) == fileParm

\* pickParm chooses between the calling parameter and the file parameter
pickParm(callingParm, fileParm) ==
    IF fileParm # Star /\ fileParm # EmptyStr THEN fileParm ELSE callingParm

-----------------------------------------------------------------------------
(* Paths and the file system *)

\* filepath.Join(dir, name) with separator sep; empty elements are ignored
Join(dir, name, sep) == IF dir = "" THEN name ELSE dir \o sep \o name

\* the two default locations findPasswordFile adds for the platform
DefaultFiles(goos, e) ==
    IF goos = "windows"
    THEN LET d == Join(e.APPDATA, "oracle", "\\") IN
         <<Join(d, ".orapass", "\\"), Join(d, "orapass", "\\")>>
    ELSE <<Join(e.HOME, ".orapass", "/"), Join(e.HOME, "orapass", "/")>>

\* appendFileList: append f to the list unless it is empty
appendFileList(files, f) == IF f # "" THEN Append(files, f) ELSE files

\* permission bits 0600 (octal), the mode checkFilePerms insists on
Mode0600 == 384
\* 0644 adds group and other read (044); 0755 is a usual directory mode
Mode0644 == Mode0600 + 36
Mode0755 == Mode0600 + 109

\* a variant that also lets a group- and world-readable file through
permsOKLax(permissions) == permissions \in {Mode0600, Mode0644}
\* checkFilePerms' test of the permission bits
permsOK(permissions) == permissions = Mode0600

Missing == [kind |-> "missing", mode |-> 0, content |-> <<>>]
Denied  == [kind |-> "denied", mode |-> 0, content |-> <<>>]
Dir     == [kind |-> "dir", mode |-> Mode0755, content |-> <<>>]
Regular(mode, content) == [kind |-> "regular", mode |-> mode, content |-> content]

\* os.Stat / os.Open look a path up; "" and unknown paths do not exist
Lookup(path) == IF path \in DOMAIN fs THEN fs[path] ELSE Missing

\* a variant of fileExists that takes any existing path for a file
fileExistsAnyKind(pathname) ==
    LET f == Lookup(pathname) IN
    CASE f.kind = "missing" -> "no"
      [] f.kind = "denied"  -> "err"
      [] OTHER              -> "yes"

\* fileExists: "yes" for a regular file, "no" for a missing path or a
\* path that is no regular file, "err" when os.Stat fails otherwise
fileExists(pathname) ==
    LET f == Lookup(pathname) IN
    CASE f.kind = "missing" -> "no"
      [] f.kind = "denied"  -> "err"
      [] f.kind = "regular" -> "yes"
      [] OTHER              -> "no"

\* the loop of findPasswordFile over files[k..]: the paths it probes and
\* how it ends ("found" with the path, "err", or "none")
RECURSIVE probeFrom(_, _, _)
probeFrom(files, k, seen) ==
    IF k > Len(files) THEN [end |-> "none", path |-> "", seen |-> seen]
    ELSE LET f == files[k]
             r == fileExists(f) IN
         CASE r = "err" -> [end |-> "err", path |-> f, seen |-> Append(seen, f)]
           [] r = "yes" -> [end |-> "found", path |-> f, seen |-> Append(seen, f)]
           [] OTHER     -> probeFrom(files, k + 1, Append(seen, f))

-----------------------------------------------------------------------------
(* Inputs *)

Line(h, pt, d, u, pw) == h \o <<":">> \o pt \o <<":">> \o d \o <<":">> \o u \o <<":">> \o pw

Localhost == S("localhost")
Port1521 == S("1521")
Emp == S("emp")
Scott == S("scott")

EntryLines ==
    { Line(Localhost, Port1521, Emp, Scott, S("tiger")),
      Line(Localhost, Port1521, Star, Scott, S("lion")),
      Line(S("LOCALHOST"), S("1522"), S("EMP"), S("Scott"), S("bear")),
      Line(Star, Star, Emp, Star, S("wolf")),
      Line(EmptyStr, Port1521, EmptyStr, Scott, S("owl")),
      Line(S("otherhost"), Port1521, Emp, Scott, <<"pa", ":", "ss", ":", "word">>) }

SkippedLines ==
    { <<"#">> \o Line(Localhost, Port1521, Emp, Scott, S("cat")),
      <<" ", " ", "#">> \o Line(Star, Star, Star, Star, S("fox")),
      <<>>,
      Localhost \o <<":">> \o Port1521 \o <<":">> \o Emp \o <<":">> \o Scott }

Lines == EntryLines \cup SkippedLines

RECURSIVE SeqsUpTo(_, _)
SeqsUpTo(T, n) ==
    IF n = 0 THEN {<<>>}
    ELSE LET shorter == SeqsUpTo(T, n - 1) IN
         shorter \cup {Append(s, x) : s \in {t \in shorter : Len(t) = n - 1}, x \in T}

Files == SeqsUpTo(Lines, MaxLines)

\* the file of the end-to-end scenario
ScenarioFile ==
    << Line(Localhost, Port1521, Emp, Scott, S("tiger")),
       Line(Localhost, Port1521, Star, Scott, S("lion")),
       Line(Localhost, S("1522"), Emp, Scott, S("bear")) >>

NoEnv == [ORACLE_HOST |-> EmptyStr, ORACLE_PORT |-> EmptyStr,
          ORACLE_SID |-> EmptyStr, ORACLE_USER |-> EmptyStr,
          ORAPASSFILE |-> "", HOME |-> "/home/u", APPDATA |-> "C:\\app"]

CliPath == "cli.pass"
EnvPath == "env.pass"

AllPaths == {CliPath, EnvPath}
    \cup {DefaultFiles(g, NoEnv)[k] : g \in {"linux", "windows"}, k \in 1..2}

OnlyCli(entry) == [path \in AllPaths |-> IF path = CliPath THEN entry ELSE Missing]

Query(h, pt, d, u, f) ==
    [Host |-> h, Port |-> pt, DbName |-> d, Username |-> u, OrapassFile |-> f]

\* the zero Parser searchFile and GetPasswd return with an error
ZeroRec == [Host |-> EmptyStr, Port |-> EmptyStr, DbName |-> EmptyStr,
            Username |-> EmptyStr, Password |-> EmptyStr]

NoMatch == [host |-> FALSE, port |-> FALSE, db |-> FALSE, user |-> FALSE]

\* a Parser as the caller hands it to GetPasswd: the query fields set,
\* the unexported candidate list empty
Fresh(q) == [Host |-> q.Host, Port |-> q.Port, DbName |-> q.DbName,
             Username |-> q.Username, OrapassFile |-> q.OrapassFile,
             files |-> <<>>]

\* what each path holds when several candidates exist: one entry whose
\* password names the file
ContentAt(path) == << Line(Localhost, Port1521, Emp, Scott, S(path)) >>

\* family 1: one explicit file of any content, queries of every shape
InitMatching ==
    /\ GOOS = "linux"
    /\ env = NoEnv
    /\ osUser = EmptyStr
    /\ \E c \in Files : fs = OnlyCli(Regular(Mode0600, c))
    /\ \E h \in {Localhost, S("otherhost")},
          pt \in {EmptyStr, S("1522")},
          d \in {EmptyStr, Emp, S("nosuchdb")},
          u \in {EmptyStr, Scott} :
          arg = Query(h, pt, d, u, CliPath)

\* family 2: every combination of caller values, environment overrides
\* and OS user, against the scenario file with a good and a bad mode
InitDefaults ==
    /\ GOOS \in {"linux", "windows"}
    /\ \E eh \in {EmptyStr, S("otherhost")}, ep \in {EmptyStr, S("1522")},
          ed \in {EmptyStr, Emp}, eu \in {EmptyStr, Scott} :
          env = [NoEnv EXCEPT !.ORACLE_HOST = eh, !.ORACLE_PORT = ep,
                              !.ORACLE_SID = ed, !.ORACLE_USER = eu]
    /\ osUser \in {EmptyStr, S("walter")}
    /\ \E mode \in {Mode0600, Mode0644} : fs = OnlyCli(Regular(mode, ScenarioFile))
    /\ \E h \in {EmptyStr, Localhost}, pt \in {EmptyStr, Port1521},
          d \in {EmptyStr, S("nosuchdb")}, u \in {EmptyStr, Scott, S("walter")} :
          arg = Query(h, pt, d, u, CliPath)

\* family 3: every layout of the four candidate paths
InitDiscovery ==
    /\ GOOS \in {"linux", "windows"}
    /\ \E ef \in {"", EnvPath} : env = [NoEnv EXCEPT !.ORAPASSFILE = ef]
    /\ osUser = Scott
    /\ \E layout \in [{"cli", "env", "dot", "plain"} -> {"missing", "denied", "dir", "r600", "r644"}] :
          fs = [path \in AllPaths |->
                  LET key == IF path = CliPath THEN "cli"
                             ELSE IF path = EnvPath THEN "env"
                             ELSE IF path = DefaultFiles(GOOS, NoEnv)[1] THEN "dot"
                             ELSE IF path = DefaultFiles(GOOS, NoEnv)[2] THEN "plain"
                             ELSE "other" IN
                  IF key = "other" THEN Missing
                  ELSE CASE layout[key] = "missing" -> Missing
                         [] layout[key] = "denied"  -> Denied
                         [] layout[key] = "dir"     -> Dir
                         [] layout[key] = "r600"    -> Regular(Mode0600, ContentAt(path))
                         [] OTHER                   -> Regular(Mode0644, ContentAt(path))]
    /\ \E f \in {"", CliPath} : arg = Query(Localhost, Port1521, Emp, Scott, f)

\* the caller has set the fields of a new Parser and is about to call GetPasswd
FirstCall ==
    /\ p = Fresh(arg)
    /\ pc = "start"
    /\ i = 0
    /\ tokens = <<>>
    /\ m = NoMatch
    /\ res = [err |-> "pending", rec |-> ZeroRec]
    /\ probed = <<>>
    /\ permChecked = <<>>
    /\ opened = <<>>
    /\ calls = 1

Init ==
    /\ InitMatching \/ InitDefaults \/ InitDiscovery
    /\ FirstCall

\* the inputs explored when one Parser is used for several calls
InitReuse ==
    /\ InitDiscovery
    /\ FirstCall

-----------------------------------------------------------------------------
(* GetPasswd *)

world == <<GOOS, env, osUser, fs, arg, calls>>

Return(err, rec) == /\ res' = [err |-> err, rec |-> rec]
                    /\ pc' = "done"

\* GetPasswd, the default substitution
ApplyDefaults ==
    /\ pc = "start"
    /\ p' = [p EXCEPT
             !.Host = coalesce(<<p.Host, env.ORACLE_HOST, S("localhost")>>),
             !.Port = coalesce(<<p.Port, env.ORACLE_PORT, S("1521")>>),
             !.DbName = coalesce(<<p.DbName, env.ORACLE_SID>>),
             !.Username = coalesce(<<p.Username, env.ORACLE_USER, osUser>>)]
    /\ pc' = "find"
    /\ UNCHANGED <<world, i, tokens, m, res, probed, permChecked, opened>>

\* GetPasswd calling findPasswordFile
FindPasswordFile ==
    /\ pc = "find"
    /\ LET defaults == DefaultFiles(GOOS, env)
           files == appendFileList(appendFileList(appendFileList(appendFileList(
                        p.files, p.OrapassFile), env.ORAPASSFILE),
                        defaults[1]), defaults[2])
           r == probeFrom(files, 1, <<>>) IN
       /\ probed' = probed \o r.seen
       /\ p' = [p EXCEPT !.files = files,
                         !.OrapassFile = IF r.end = "found" THEN r.path ELSE @]
       /\ IF r.end = "err"
          THEN Return("stat", ZeroRec)
          ELSE /\ pc' = IF GOOS # "windows" THEN "perms" ELSE "search"
               /\ res' = res
    /\ UNCHANGED <<world, i, tokens, m, permChecked, opened>>

\* GetPasswd calling checkFilePerms (not on Windows)
CheckFilePerms ==
    /\ pc = "perms"
    /\ permChecked' = Append(permChecked, p.OrapassFile)
    /\ LET f == Lookup(p.OrapassFile) IN
       IF f.kind \in {"missing", "denied"}
       THEN Return("stat", ZeroRec)
       ELSE IF ~permsOK(f.mode)
       THEN Return("perm", ZeroRec)
       ELSE pc' = "search" /\ res' = res
    /\ UNCHANGED <<world, p, i, tokens, m, probed, opened>>

\* searchFile up to the creation of the scanner
SearchOpen ==
    /\ pc = "search"
    /\ opened' = Append(opened, p.OrapassFile)
    /\ IF Lookup(p.OrapassFile).kind \in {"missing", "denied"}
       THEN Return("open", ZeroRec)
       ELSE pc' = "scan" /\ res' = res
    /\ UNCHANGED <<world, p, i, tokens, m, probed, permChecked>>

\* searchFile, one iteration of the scanner loop
SearchLine ==
    /\ pc = "scan"
    /\ i < Len(Lookup(p.OrapassFile).content)
    /\ i' = i + 1
    /\ LET line == Lookup(p.OrapassFile).content[i + 1]
           t == SplitN(line, 5) IN
       IF IsComment(line)
       THEN /\ tokens' = <<>>
            /\ m' = NoMatch
            /\ UNCHANGED <<pc, res>>
       ELSE IF Len(t) < 5
       THEN /\ tokens' = t
            /\ m' = NoMatch
            /\ UNCHANGED <<pc, res>>
       ELSE LET hostMatch == chkForMatch(p.Host, t[1])
                portMatch == chkForMatch(p.Port, t[2])
                dbNameMatch == chkForMatch(p.DbName, t[3])
                userMatch == chkForMatch(p.Username, t[4]) IN
            /\ tokens' = t
            /\ m' = [host |-> hostMatch, port |-> portMatch,
                     db |-> dbNameMatch, user |-> userMatch]
            /\ IF allMatch(hostMatch, portMatch, dbNameMatch, userMatch)
               THEN Return("none", [Host |-> pickParm(p.Host, t[1]),
                                    Port |-> pickParm(p.Port, t[2]),
                                    DbName |-> pickParm(p.DbName, t[3]),
                                    Username |-> t[4],
                                    Password |-> t[5]])
               ELSE UNCHANGED <<pc, res>>
    /\ UNCHANGED <<world, p, probed, permChecked, opened>>

\* searchFile after the loop: the scanner's error, or no entry found
SearchEnd ==
    /\ pc = "scan"
    /\ i = Len(Lookup(p.OrapassFile).content)
    /\ IF Lookup(p.OrapassFile).kind = "dir"
       THEN Return("read", ZeroRec)
       ELSE Return("notfound", ZeroRec)
    /\ UNCHANGED <<world, p, i, tokens, m, probed, permChecked, opened>>

Next ==
    \/ ApplyDefaults
    \/ FindPasswordFile
    \/ CheckFilePerms
    \/ SearchOpen
    \/ SearchLine
    \/ SearchEnd

Spec == Init /\ [][Next]_vars

\* the caller, holding the Parser after a call, sets the explicit path and
\* the database anew (or leaves them) and calls GetPasswd again
CallAgain ==
    /\ pc = "done"
    /\ calls < MaxCalls
    /\ \E f \in {p.OrapassFile, "", CliPath, EnvPath},
          d \in {p.DbName, S("nosuchdb")} :
          /\ p' = [p EXCEPT !.OrapassFile = f, !.DbName = d]
          /\ arg' = Query(p.Host, p.Port, d, p.Username, f)
    /\ calls' = calls + 1
    /\ pc' = "start"
    /\ i' = 0
    /\ tokens' = <<>>
    /\ m' = NoMatch
    /\ res' = [err |-> "pending", rec |-> ZeroRec]
    /\ probed' = <<>>
    /\ permChecked' = <<>>
    /\ opened' = <<>>
    /\ UNCHANGED <<GOOS, env, osUser, fs>>

NextReuse ==
    \/ ApplyDefaults
    \/ FindPasswordFile
    \/ CheckFilePerms
    \/ SearchOpen
    \/ SearchLine
    \/ SearchEnd
    \/ CallAgain

SpecReuse == InitReuse /\ [][NextReuse]_vars

-----------------------------------------------------------------------------
(* Vocabulary of the properties *)

\* the credentials file GetPasswd settled on, and its lines
TheFile == Lookup(p.OrapassFile)
Content == TheFile.content

\* the candidate paths of a call, in the documented order: explicit path,
\* ORAPASSFILE, then the platform's dotfile and plain name; unset ones left out
Candidates ==
    LET d == DefaultFiles(GOOS, env)
        all == <<arg.OrapassFile, env.ORAPASSFILE, d[1], d[2]>> IN
    SelectSeq(all, LAMBDA f : f # "")

\* position in Candidates of the first existing regular file, 0 if none
FirstRegular ==
    LET idx == {k \in 1..Len(Candidates) : Lookup(Candidates[k]).kind = "regular"} IN
    IF idx = {} THEN 0 ELSE CHOOSE k \in idx : \A j \in idx : k <= j

\* some candidate cannot be examined at all (os.Stat fails on it)
StatFailsBefore(n) == \E k \in 1..n : Lookup(Candidates[k]).kind = "denied"

\* the resolved credentials file, "" when discovery finds none
Resolved ==
    IF FirstRegular = 0 \/ StatFailsBefore(FirstRegular) THEN ""
    ELSE Candidates[FirstRegular]

\* letters of a symbol in lower case
FoldSym(c) ==
    CASE c \in {"localhost", "LOCALHOST"}   -> "localhost"
      [] c \in {"otherhost", "OTHERHOST"}   -> "otherhost"
      [] c \in {"emp", "EMP"}               -> "emp"
      [] c \in {"scott", "Scott", "SCOTT"}  -> "scott"
      [] OTHER                              -> c

\* two strings are equal ignoring letter case
EqualFold(a, b) ==
    /\ Len(a) = Len(b)
    /\ \A k \in 1..Len(a) : FoldSym(a[k]) = FoldSym(b[k])

\* the query after default substitution and the match flags, by position
QueryField == <<p.Host, p.Port, p.DbName, p.Username>>
MatchFlag == <<m.host, m.port, m.db, m.user>>

\* the line last read was split into five fields and compared
Compared == pc \in {"scan", "done"} /\ i > 0 /\ Len(tokens) = 5

\* a line the scan may select for the current query
Selectable(line) ==
    /\ ~IsComment(line)
    /\ Len(SplitN(line, 5)) = 5
    /\ LET t == SplitN(line, 5) IN
       \A k \in 1..4 : chkForMatch(QueryField[k], t[k])

-----------------------------------------------------------------------------
(* C1 *)

\* C1: when GetPasswd returns a record, it is built from the lowest-numbered
\* line that is no comment, splits into 5 fields and matches on host, port,
\* database and username: no earlier line satisfies those conditions, and
\* the result is final, so later matching lines never override it.
FirstMatchWins ==
    res.err = "none" =>
        /\ i \in 1..Len(Content)
        /\ Selectable(Content[i])
        /\ \A j \in 1..(i - 1) : ~Selectable(Content[j])
        /\ res.rec.Username = SplitN(Content[i], 5)[4]
        /\ res.rec.Password = SplitN(Content[i], 5)[5]
        /\ pc = "done"

\* a record came from line 1 although line 2 matches too, with another password
FirstMatchWinsWitness ==
    /\ res.err = "none"
    /\ i = 1
    /\ Len(Content) = 2
    /\ Selectable(Content[2])
    /\ SplitN(Content[2], 5)[5] # res.rec.Password
    /\ SplitN(Content[2], 5)[3] = Star

-----------------------------------------------------------------------------
(* C2 *)

\* C2: off Windows, when the resolved credentials file has a mode other than
\* exactly 0600, GetPasswd ends with the permission error and never opens or
\* reads the file, whatever it contains; a record is returned only for mode 0600.
PermissionEnforced ==
    GOOS # "windows" =>
        /\ (Resolved # "" /\ Lookup(Resolved).mode # Mode0600) =>
              /\ opened = <<>>
              /\ i = 0
              /\ pc \notin {"search", "scan"}
              /\ pc = "done" => res.err = "perm"
        /\ res.err = "none" =>
              /\ Resolved # ""
              /\ Lookup(Resolved).mode = Mode0600

\* the permission error was returned for a file whose first line matches the query
PermissionEnforcedWitness ==
    /\ GOOS # "windows"
    /\ res.err = "perm"
    /\ Resolved # ""
    /\ Lookup(Resolved).mode = Mode0644
    /\ Lookup(Resolved).content # <<>>
    /\ Selectable(Lookup(Resolved).content[1])

-----------------------------------------------------------------------------
(* C3 *)

\* what the documentation says of one field: the file field is exactly "*"
\* or equals the query value ignoring letter case
FieldRule(callingParm, fileParm) ==
    fileParm = Star \/ EqualFold(callingParm, fileParm)

\* C3: for each of host, port, database and username with a non-empty query
\* value, the file field matches iff it is exactly "*" or equals the query
\* value ignoring case; a line is selected only when all four fields match.
FieldMatching ==
    /\ Compared =>
          \A k \in 1..4 :
              QueryField[k] # EmptyStr =>
                  (MatchFlag[k] <=> FieldRule(QueryField[k], tokens[k]))
    /\ res.err = "none" =>
          /\ Compared
          /\ \A k \in 1..4 : MatchFlag[k]
          /\ \A k \in 1..4 :
                QueryField[k] # EmptyStr => FieldRule(QueryField[k], tokens[k])

\* a line was selected through a literal in another case, a wildcard and
\* plain equality at once
FieldMatchingWitness ==
    /\ res.err = "none"
    /\ QueryField = <<S("localhost"), S("1521"), S("emp"), S("scott")>>
    /\ tokens[1] = Star /\ tokens[2] = Star /\ tokens[3] = S("emp")

\* a line compared with a non-empty query was rejected on one field only,
\* the others matching through letter case
FieldMatchingRejects ==
    /\ Compared
    /\ pc = "scan"
    /\ \A k \in 1..4 : QueryField[k] # EmptyStr
    /\ tokens[1] = S("LOCALHOST") /\ tokens[4] = S("Scott")
    /\ MatchFlag = <<TRUE, FALSE, FALSE, TRUE>>

-----------------------------------------------------------------------------
(* C4 *)

-----------------------------------------------------------------------------
(* C5 *)

\* no candidate path is an existing regular file: each is missing or a directory
NoFileFound ==
    \A k \in 1..Len(Candidates) : Lookup(Candidates[k]).kind \in {"missing", "dir"}

\* C5: on a Unix-like platform, when none of the candidate paths is an
\* existing regular file, the permission check is skipped and GetPasswd ends
\* with the "no suitable password entry found" error, not with a permission
\* error or a stat/open error.
NoFileFoundMeansNoEntry ==
    (GOOS # "windows" /\ NoFileFound) =>
        /\ permChecked = <<>>
        /\ pc = "done" => res.err = "notfound"

-----------------------------------------------------------------------------
(* C6 *)

\* C6: the candidate paths are examined in the order explicit path,
\* ORAPASSFILE path, dotfile, plain name; candidates that do not exist or are
\* no regular files are skipped without error; the file that is
\* permission-checked and scanned is the first candidate in that order that
\* is an existing regular file, and later candidates are never used.
DiscoveryOrder ==
    pc \notin {"start", "find"} =>
        /\ Len(probed) <= Len(Candidates)
        /\ probed = SubSeq(Candidates, 1, Len(probed))
        /\ \A k \in 1..(Len(probed) - 1) :
              Lookup(probed[k]).kind \in {"missing", "dir"}
        /\ (res.err = "stat" /\ permChecked = <<>>) =>
              /\ probed # <<>>
              /\ Lookup(probed[Len(probed)]).kind = "denied"
        /\ Resolved # "" =>
              /\ Len(probed) = FirstRegular
              /\ p.OrapassFile = Resolved
              /\ \A k \in 1..Len(permChecked) : permChecked[k] = Resolved
              /\ \A k \in 1..Len(opened) : opened[k] = Resolved
              /\ res.err = "none" =>
                    res.rec.Password = SplitN(Lookup(Resolved).content[i], 5)[5]
        /\ (Resolved = "" /\ ~StatFailsBefore(Len(Candidates))) =>
              probed = Candidates

\* the explicit path is a directory and ORAPASSFILE names a missing file:
\* both were skipped, the dotfile was checked and scanned, and the plain
\* name, a regular file too, was never touched
DiscoveryOrderWitness ==
    /\ res.err = "none"
    /\ Len(Candidates) = 4
    /\ Lookup(Candidates[1]).kind = "dir"
    /\ Lookup(Candidates[2]).kind = "missing"
    /\ Lookup(Candidates[4]).kind = "regular"
    /\ probed = SubSeq(Candidates, 1, 3)
    /\ permChecked = <<Candidates[3]>>
    /\ opened = <<Candidates[3]>>
    /\ res.rec.Password = S(Candidates[3])

-----------------------------------------------------------------------------
(* C7 *)

\* the first non-empty of three values, of two values
First3(a, b, c) == IF a # EmptyStr THEN a ELSE IF b # EmptyStr THEN b ELSE c
First2(a, b) == IF a # EmptyStr THEN a ELSE b

\* C7: before the search, host, port and username each take the first
\* non-empty of (caller's value, ORACLE_HOST / ORACLE_PORT / ORACLE_USER,
\* localhost / 1521 / OS user); database takes the first non-empty of
\* (caller's value, ORACLE_SID) and otherwise stays empty; a non-empty caller
\* value is never replaced.
DefaultSubstitution ==
    pc # "start" =>
        /\ p.Host = First3(arg.Host, env.ORACLE_HOST, S("localhost"))
        /\ p.Port = First3(arg.Port, env.ORACLE_PORT, S("1521"))
        /\ p.Username = First3(arg.Username, env.ORACLE_USER, osUser)
        /\ p.DbName = First2(arg.DbName, env.ORACLE_SID)
        /\ arg.Host # EmptyStr => p.Host = arg.Host
        /\ arg.Port # EmptyStr => p.Port = arg.Port
        /\ arg.DbName # EmptyStr => p.DbName = arg.DbName
        /\ arg.Username # EmptyStr => p.Username = arg.Username

\* one call used a caller value (database) against a set ORACLE_SID, an
\* environment value (host), a hard default (port) and the OS user
DefaultSubstitutionWitness ==
    /\ pc = "done"
    /\ arg.DbName = S("nosuchdb") /\ env.ORACLE_SID = S("emp") /\ p.DbName = S("nosuchdb")
    /\ arg.Host = EmptyStr /\ env.ORACLE_HOST = S("otherhost") /\ p.Host = S("otherhost")
    /\ arg.Port = EmptyStr /\ env.ORACLE_PORT = EmptyStr /\ p.Port = S("1521")
    /\ arg.Username = EmptyStr /\ env.ORACLE_USER = EmptyStr
    /\ osUser = S("walter") /\ p.Username = S("walter")

-----------------------------------------------------------------------------
(* C8 *)

\* C8: in a record returned by GetPasswd none of host, port, database or
\* username is the wildcard marker "*".
NoWildcardInRecord ==
    res.err = "none" =>
        /\ res.rec.Host # Star
        /\ res.rec.Port # Star
        /\ res.rec.DbName # Star
        /\ res.rec.Username # Star

-----------------------------------------------------------------------------
(* C9 *)

\* the record's value for host, port or database
Composed(callingParm, fileParm) ==
    IF fileParm \in {Star, EmptyStr} THEN callingParm ELSE fileParm

\* C9: for host, port and database the record holds the matched line's field
\* when that field is neither "*" nor empty, and otherwise the defaulted
\* query value; username and password are copied verbatim from the line.
RecordComposition ==
    res.err = "none" =>
        LET t == SplitN(Content[i], 5) IN
        /\ res.rec.Host = Composed(First3(arg.Host, env.ORACLE_HOST, S("localhost")), t[1])
        /\ res.rec.Port = Composed(First3(arg.Port, env.ORACLE_PORT, S("1521")), t[2])
        /\ res.rec.DbName = Composed(First2(arg.DbName, env.ORACLE_SID), t[3])
        /\ res.rec.Username = t[4]
        /\ res.rec.Password = t[5]

\* line localhost:1521:*:scott:lion, query (localhost, 1521, nosuchdb, scott):
\* database nosuchdb, password lion
RecordCompositionWitness ==
    /\ res.err = "none"
    /\ Content[i] = Line(S("localhost"), S("1521"), Star, S("scott"), S("lion"))
    /\ arg.Host = S("localhost") /\ arg.Port = S("1521")
    /\ arg.DbName = S("nosuchdb") /\ arg.Username = S("scott")
    /\ res.rec = [Host |-> S("localhost"), Port |-> S("1521"), DbName |-> S("nosuchdb"),
                  Username |-> S("scott"), Password |-> S("lion")]

-----------------------------------------------------------------------------
(* C10 *)

\* the caller left a query field empty and no environment override is set
LeftUnspecified ==
    /\ env.ORACLE_HOST = EmptyStr /\ env.ORACLE_PORT = EmptyStr
    /\ env.ORACLE_SID = EmptyStr /\ env.ORACLE_USER = EmptyStr
    /\ \/ arg.Host = EmptyStr
       \/ arg.Port = EmptyStr
       \/ arg.DbName = EmptyStr
       \/ arg.Username = EmptyStr

\* C10: when the caller leaves any of host, port, database or username empty
\* and no environment override is set, GetPasswd returns an error rather
\* than a record: unspecified fields are not filled in to obtain a match.
UnspecifiedGivesError ==
    (pc = "done" /\ LeftUnspecified) => res.err # "none"

-----------------------------------------------------------------------------
(* C11 *)

\* optional leading spaces, then "#"
CommentLine(line) ==
    \E n \in 1..Len(line) :
        /\ line[n] = "#"
        /\ \A j \in 1..(n - 1) : line[j] = " "

\* number of ":" in a line; a line has one field more than that
Colons(line) == Cardinality({k \in 1..Len(line) : line[k] = ":"})

\* a comment line, a blank line or a line with fewer than 5 fields
SkippedLine(line) == CommentLine(line) \/ line = <<>> \/ Colons(line) + 1 < 5

\* the file without its skipped lines
Kept == SelectSeq(Content, LAMBDA line : ~SkippedLine(line))

\* positions in Kept of the lines whose first four fields match the query
KeptHits ==
    {k \in 1..Len(Kept) :
        \A f \in 1..4 : chkForMatch(QueryField[f], SplitN(Kept[k], 5)[f])}

\* searchFile has gone through the file to a record or to its end
Scanned == pc = "done" /\ opened # <<>> /\ TheFile.kind = "regular"

\* C11: comment lines, blank lines and lines with fewer than 5 fields never
\* produce a match and never raise an error, and the outcome is that of the
\* file without them; a file made only of such lines yields the "no suitable
\* entry found" error for every query.
SkippedLinesIgnored ==
    /\ (pc \in {"scan", "done"} /\ i > 0 /\ SkippedLine(Content[i])) =>
          /\ m = NoMatch
          /\ res.err \in {"pending", "notfound"}
    /\ Scanned =>
          IF KeptHits = {}
          THEN res.err = "notfound"
          ELSE LET first == CHOOSE k \in KeptHits : \A j \in KeptHits : k <= j IN
               /\ res.err = "none"
               /\ res.rec.Username = SplitN(Kept[first], 5)[4]
               /\ res.rec.Password = SplitN(Kept[first], 5)[5]
    /\ (Scanned /\ \A k \in 1..Len(Content) : SkippedLine(Content[k])) =>
          res.err = "notfound"

\* a file of an indented comment and a four-field line, both of which would
\* fit the query, ended in "no suitable entry found"
SkippedLinesIgnoredWitness ==
    /\ Scanned
    /\ res.err = "notfound"
    /\ Content = << <<" ", " ", "#">> \o Line(Star, Star, Star, Star, S("fox")),
                    Localhost \o <<":">> \o Port1521 \o <<":">> \o Emp \o <<":">> \o Scott >>
    /\ QueryField = <<Localhost, Port1521, Emp, Scott>>

\* a comment and then an entry: the record comes from line 2
SkippedLinesIgnoredThenMatch ==
    /\ Scanned
    /\ res.err = "none"
    /\ i = 2
    /\ CommentLine(Content[1])
    /\ Len(Kept) = 1

-----------------------------------------------------------------------------
(* C12 *)

\* position of the n-th ":" of a line, 0 when it has fewer
NthColon(line, n) ==
    LET at == {k \in 1..Len(line) :
                  /\ line[k] = ":"
                  /\ Cardinality({j \in 1..k : line[j] = ":"}) = n} IN
    IF at = {} THEN 0 ELSE CHOOSE k \in at : TRUE

\* what follows the fourth ":" of a line
AfterFourthColon(line) == SubSeq(line, NthColon(line, 4) + 1, Len(line))

\* the text between the (n-1)-th and the n-th ":" of a line
FieldBefore(line, n) ==
    SubSeq(line, (IF n = 1 THEN 0 ELSE NthColon(line, n - 1)) + 1, NthColon(line, n) - 1)

\* C12: a line is split at its first four colons only: the returned password
\* is the verbatim remainder of the matched line after the fourth colon,
\* further ":" included, and extra colons neither make the line rejected nor
\* shift the first four fields.
PasswordKeepsColons ==
    /\ (pc \in {"scan", "done"} /\ i > 0 /\ ~CommentLine(Content[i])
            /\ Colons(Content[i]) >= 4) =>
          /\ Len(tokens) = 5
          /\ \A n \in 1..4 : tokens[n] = FieldBefore(Content[i], n)
          /\ tokens[5] = AfterFourthColon(Content[i])
    /\ res.err = "none" =>
          /\ res.rec.Password = AfterFourthColon(Content[i])
          /\ res.rec.Username = FieldBefore(Content[i], 4)

\* the line otherhost:1521:emp:scott:pa:ss:word gave the password pa:ss:word
PasswordKeepsColonsWitness ==
    /\ res.err = "none"
    /\ Colons(Content[i]) = 6
    /\ res.rec.Username = S("scott")
    /\ res.rec.Password = <<"pa", ":", "ss", ":", "word">>

-----------------------------------------------------------------------------
(* C13 *)

\* the query of the current call after default substitution, from the field
\* values the caller set for this call
FreshQuery ==
    << First3(arg.Host, env.ORACLE_HOST, S("localhost")),
       First3(arg.Port, env.ORACLE_PORT, S("1521")),
       First2(arg.DbName, env.ORACLE_SID),
       First3(arg.Username, env.ORACLE_USER, osUser) >>

\* the path a new Parser with these field values goes on with after
\* discovery: the resolved file, or the explicit path when none is found
FreshFile == IF FirstRegular = 0 THEN arg.OrapassFile ELSE Candidates[FirstRegular]

\* positions of the lines of a file that a scan for the query q would select
FreshHits(content, q) ==
    {k \in 1..Len(content) :
        /\ ~SkippedLine(content[k])
        /\ \A f \in 1..4 : FieldRule(q[f], SplitN(content[k], 5)[f])
                              /\ (q[f] = EmptyStr => SplitN(content[k], 5)[f] = EmptyStr)}

\* what GetPasswd returns on a new Parser holding the field values of the
\* current call, under the same environment and file system
FreshResult ==
    LET q == FreshQuery
        file == Lookup(FreshFile)
        hits == FreshHits(file.content, q)
        fail(e) == [err |-> e, rec |-> ZeroRec] IN
    IF StatFailsBefore(IF FirstRegular = 0 THEN Len(Candidates) ELSE FirstRegular)
    THEN fail("stat")
    ELSE IF GOOS # "windows" /\ file.kind = "missing" THEN fail("stat")
    ELSE IF GOOS # "windows" /\ file.mode # Mode0600 THEN fail("perm")
    ELSE IF file.kind = "missing" THEN fail("open")
    ELSE IF file.kind = "dir" THEN fail("read")
    ELSE IF hits = {} THEN fail("notfound")
    ELSE LET t == SplitN(file.content[CHOOSE k \in hits : \A j \in hits : k <= j], 5) IN
         [err |-> "none",
          rec |-> [Host |-> Composed(q[1], t[1]), Port |-> Composed(q[2], t[2]),
                   DbName |-> Composed(q[3], t[3]),
                   Username |-> t[4], Password |-> t[5]]]

\* C13: each GetPasswd call on a Parser returns what a call on a new Parser
\* with the same field values would return under the same environment and
\* file system, however many calls were made on that Parser before.
CallsAreIndependent ==
    pc = "done" => res = FreshResult

\* the candidate list of a call holds only that call's candidates, the
\* call's explicit path first
OwnCandidatesOnly ==
    pc \notin {"start", "find"} => p.files = Candidates

-----
(* Type correctness *)

TypeOK ==
    /\ pc \in {"start", "find", "perms", "search", "scan", "done"}
    /\ res.err \in {"pending", "none", "stat", "perm", "open", "read", "notfound"}
    /\ (pc = "done") <=> (res.err # "pending")
    /\ i \in 0..(MaxLines + 1)

====
